---- MODULE Spec2Model ----
(***************************************************************************)
(* State-machine model of the pretix MTN Mobile Money payment plugin:      *)
(* the bearer-token cache (get_token), the payment and refund initiators   *)
(* (execute_payment, execute_refund), the status reconcilers               *)
(* (_update_payment, _update_refund) and their triggers (the webhook view, *)
(* the periodic sweep, the pending page and the check_* tasks).            *)
(*                                                                         *)
(* Time is in seconds.  A stored info blob (the JSON dict behind           *)
(* info_data) is a function from its keys to values; the empty function is *)
(* a record whose info column is null.                                     *)
(***************************************************************************)
EXTENDS Integers, FiniteSets, Sequences, Bags, TLC

VARIABLES
    payments,   \* OrderPayment rows: id -> [provider, state, info, created]
    refunds,    \* OrderRefund rows:  id -> [provider, state, info, created, payment]
    cache,      \* django cache: key (API family) -> [value, expires]
    now,        \* wall clock, seconds
    queue,      \* celery messages waiting for a worker: a bag of <<task name, pk>>
    nextRef,    \* number of uuid4 values drawn so far
    tproc,      \* the handlers in progress (a bag of positions and locals), the
                \* provider's side of a charge or refund, the threads and the
                \* calls left to explore; in the token models the callers'
                \* positions, or the token hash last fetched per key
    last        \* what the most recent step did (its inputs, outcome, effects)

vars == <<payments, refunds, cache, now, queue, nextRef, tproc, last>>

----------------------------------------------------------------------------
(* Bounds of the model *)

MaxTicks == 2          \* clock advances explored by the lifecycle model
MaxRefs == 2           \* uuid4 draws explored
MaxTokenTicks == 5     \* clock advances explored by the token model
MaxThreads == 2        \* handlers that run at the same time
MaxQueued == 2         \* messages of one task for one row waiting in the queue
MaxCalls == 2          \* handler calls explored by the lifecycle models
MaxRaceCalls == 3      \* handler calls explored by the models of interleaved calls

(* Program constants *)

Margin == 120          \* expires_in - 120
Day == 86400           \* timedelta(days=1)

SweepTick == Day \div 2
TokenTick == Margin \div 2

----------------------------------------------------------------------------
(* Records the host keeps.  Payment 1 and refund 1 belong to this plugin;  *)
(* payment 2 and refund 2 belong to another payment provider.              *)

PaymentIds == {1, 2}
RefundIds == {1, 2}
\* a primary key no row has
UnknownId == (CHOOSE m \in PaymentIds \cup RefundIds :
                 \A x \in PaymentIds \cup RefundIds : x <= m) + 1

identifier == "mtn_momo"

Apis == {"collection", "disbursement"}

NoInfo == [k \in {} |-> "x"]

NoToken == <<>>

\* A mutant of Merge: the answer alone, the stored entries dropped
Merge_AnswerOnly(a, d) == d

\* A mutant of Merge: a's value kept on a clash, {**d, **a}
Merge_KeepOld(a, d) ==
    [k \in (DOMAIN a) \cup (DOMAIN d) |-> IF k \in DOMAIN a THEN a[k] ELSE d[k]]

\* {**a, **d}: every key of either dict, d winning on a clash
Merge(a, d) ==
    [k \in (DOMAIN a) \cup (DOMAIN d) |-> IF k \in DOMAIN d THEN d[k] ELSE a[k]]

----------------------------------------------------------------------------
(* The django cache, as get_token uses it *)

\* cache.get(key) finds an entry: it was set and has not expired
CacheLive(c, key, t) == key \in DOMAIN c /\ c[key].expires > t

\* cache.set(key, value, timeout): a timeout that is not positive stores nothing
\* that a later get can find, and removes what was stored under the key
CacheSet(c, key, value, timeout, t) ==
    IF timeout > 0
    THEN [k \in (DOMAIN c) \cup {key} |->
            IF k = key THEN [value |-> value, expires |-> t + timeout] ELSE c[k]]
    ELSE [k \in (DOMAIN c) \ {key} |-> c[k]]

\* entries that have expired are gone
CachePurge(c, t) == [k \in {x \in DOMAIN c : c[x].expires > t} |-> c[k]]

----------------------------------------------------------------------------
(* The provider's answers *)

\* expires_in values the token endpoint may declare
ExpiresIn == {Margin, 2 * Margin}

\* POST /{api}/token/ : a transport error (raise_for_status included), a body
\* without expires_in ("malformed"), a body with expires_in and without
\* access_token ("notoken"), or a token.  The access token is named by its
\* time of issue and its declared life.
PostOutcomes ==
    {[kind |-> "transport", expires_in |-> 0], [kind |-> "malformed", expires_in |-> 0]}
    \cup {[kind |-> "notoken", expires_in |-> e] : e \in ExpiresIn}
    \cup {[kind |-> "ok", expires_in |-> e] : e \in ExpiresIn}

TokenHash(t, e) == [access_token |-> <<t, e>>, expires_in |-> e]

\* r.json() of a 2xx answer that has expires_in
TokenBody(post, t) ==
    IF post.kind = "ok" THEN TokenHash(t, post.expires_in)
    ELSE [expires_in |-> post.expires_in]

\* token_hash["access_token"] raises KeyError
HasToken(token_hash) == "access_token" \in DOMAIN token_hash

Reasons == {"X"}

\* A reference the provider puts in its answer: never one uuid4 draws
ForeignRef == MaxRefs + 1

\* GET .../{reference} bodies
StatusBodies ==
    {[status |-> "SUCCESSFUL", payer |-> "msisdn"],
     [status |-> "PENDING", payer |-> "msisdn"],
     [status |-> "PENDING", reference |-> ForeignRef],
     [payer |-> "msisdn"]}
    \cup {[status |-> "FAILED", reason |-> x, payer |-> "msisdn"] : x \in Reasons}

\* GET outcomes: a transport error (raise_for_status included) or a body
GetOutcomes ==
    {[ok |-> FALSE, body |-> NoInfo]} \cup {[ok |-> TRUE, body |-> d] : d \in StatusBodies}

----------------------------------------------------------------------------
(* Exceptions *)

NoRaise == [raised |-> "none", msg |-> ""]
KeyError == [raised |-> "KeyError", msg |-> ""]
ValueError == [raised |-> "ValueError", msg |-> ""]
RequestException == [raised |-> "RequestException", msg |-> ""]
PaymentException(m) == [raised |-> "PaymentException", msg |-> m]

----------------------------------------------------------------------------
(* get_token, one statement that waits at a time: the cache read, the token *)
(* POST and its answer, the cache write and the return                      *)

NoHash == [access_token |-> NoToken, expires_in |-> 0]

TokenTtl(token_hash) == token_hash.expires_in - Margin

\* cache.get and the test of what it returned, at time t: a live entry is
\* returned and its access_token read ("hit"; "hit_notoken" when it has none
\* and the read raises KeyError); without a live entry the token POST is made
\* ("miss")
TokenCached(c, t, api) ==
    IF CacheLive(c, api, t)
    THEN IF HasToken(c[api].value)
         THEN [result |-> "hit", token |-> c[api].value.access_token]
         ELSE [result |-> "hit_notoken", token |-> NoToken]
    ELSE [result |-> "miss", token |-> NoToken]

\* the token POST is answered at time t: raise_for_status raises
\* ("transport"), or the body is read; a body without expires_in raises
\* KeyError before anything is stored ("malformed")
TokenAnswer(post, t) ==
    IF post.kind \in {"transport", "malformed"}
    THEN [result |-> post.kind, token_hash |-> NoHash]
    ELSE [result |-> "posted", token_hash |-> TokenBody(post, t)]

\* cache.set of the body for expires_in - 120 seconds at time t, and the read
\* of its access_token: the token is returned ("fetched"), or KeyError raised
\* ("notoken") with the body stored all the same
TokenStore(c, t, api, token_hash) ==
    [cache |-> CacheSet(c, api, token_hash, TokenTtl(token_hash), t),
     result |-> IF HasToken(token_hash) THEN "fetched" ELSE "notoken",
     token |-> IF HasToken(token_hash) THEN token_hash.access_token ELSE NoToken]

\* get_token returned a token
TokenOk(result) == result \in {"hit", "fetched"}

\* get_token ended with a KeyError
TokenKeyError(result) == result \in {"malformed", "notoken", "hit_notoken"}

\* the exception a get_token statement raises
TokenRaises(result) ==
    IF TokenKeyError(result) THEN KeyError
    ELSE IF result = "transport" THEN RequestException
    ELSE NoRaise

----------------------------------------------------------------------------
(* The host's state transitions (pretix.base.models.OrderPayment and       *)
(* OrderRefund).  A handler works on an object it loaded (its state and    *)
(* info); the host's transitions read and write the database row, and      *)
(* leave the object refreshed from the row they wrote.                     *)

NoPre == [state |-> "", info |-> NoInfo]

\* the object a handler gets when it loads the row
Pre(rec) == [state |-> rec.state, info |-> rec.info]

\* the object after the host refreshed it from the row it wrote
Refreshed(row) == Pre(row)

\* A mutant of SaveInfo: nothing is written
SaveInfo_Nothing(row, copy) == row

\* A mutant of SaveInfo: the whole object is saved, save()
SaveInfo_AllFields(row, copy) == [row EXCEPT !.info = copy.info, !.state = copy.state]

\* save(update_fields=["info"]): the info column of the row is written from
\* the object
SaveInfo(row, copy) == [row EXCEPT !.info = copy.info]

\* save(update_fields=["state"])
SaveState(row, copy) == [row EXCEPT !.state = copy.state]

\* payment.confirm(): under the row's lock; nothing when the row is already
\* terminal (confirmed or failed), else the row becomes confirmed with the
\* object's info, and the object is refreshed
confirm(row, copy) ==
    IF row.state \in {"confirmed", "failed"}
    THEN [row |-> row, copy |-> copy]
    ELSE LET r == [row EXCEPT !.state = "confirmed", !.info = copy.info]
         IN [row |-> r, copy |-> Refreshed(r)]

\* A mutant of fail: the row's state is not looked at
fail_Unguarded(row, copy, info) ==
    LET r == [row EXCEPT !.state = "failed", !.info = info]
    IN [row |-> r, copy |-> Refreshed(r)]

\* payment.fail(info=...): under the row's lock; nothing unless the row is
\* created or pending, else the row becomes failed with the given info, and
\* the object is refreshed
fail(row, copy, info) ==
    IF row.state \in {"created", "pending"}
    THEN LET r == [row EXCEPT !.state = "failed", !.info = info]
         IN [row |-> r, copy |-> Refreshed(r)]
    ELSE [row |-> row, copy |-> copy]

\* refund.done(): the object's state set to done and the object saved whole
done(row, copy) ==
    LET r == [row EXCEPT !.state = "done", !.info = copy.info]
    IN [row |-> r, copy |-> Refreshed(r)]

----------------------------------------------------------------------------
(* The statements of the reconcilers and the initiators, on the row and    *)
(* the object of the handler that runs them                                *)

NoGet == [ok |-> FALSE, body |-> NoInfo]

Api(kind) == IF kind = "payment" THEN "collection" ELSE "disbursement"

\* the state an initiator gives the object after its POST
Submitted(kind) == IF kind = "payment" THEN "pending" ELSE "transit"

\* the states the second test of a reconciler asks for
Open(kind) == {"created", Submitted(kind)}

\* What a statement leaves: the row, the object, the position the handler
\* goes to ("end": it returns or raises), the exception raised
After(row, copy, pc, exc) == [row |-> row, copy |-> copy, pc |-> pc, exc |-> exc]

\* A mutant of Caught: the transport error is not caught
Caught_Reraise(exc) == exc

\* the except clause of the try block of _update_payment / _update_refund: a
\* RequestException is logged and the call returns; any other exception
\* leaves the call
Caught(exc) == IF exc = RequestException THEN NoRaise ELSE exc

\* _update_payment / _update_refund, the answer to the status GET:
\* raise_for_status inside the try block, then the read of d["status"] in the
\* else branch, which raises KeyError when the body has none
Poll(get) ==
    IF ~get.ok THEN [pc |-> "end", exc |-> Caught(RequestException)]
    ELSE IF "status" \notin DOMAIN get.body THEN [pc |-> "end", exc |-> KeyError]
    ELSE [pc |-> "apply", exc |-> NoRaise]

\* A mutant of UpdatePayment: on FAILED the object is set failed and saved,
\* payment.fail() not called
UpdatePayment_FailWritten(pc, row, copy, d) ==
    LET merged == [copy EXCEPT !.info = Merge(copy.info, d)] IN
    IF pc = "apply" /\ d.status = "SUCCESSFUL"
    THEN After(SaveInfo(row, merged), merged, "confirm", NoRaise)
    ELSE IF pc = "confirm"
    THEN LET c == confirm(row, copy) IN After(c.row, c.copy, "store", NoRaise)
    ELSE IF d.status = "FAILED" /\ copy.state \in Open("payment")
    THEN LET f == [merged EXCEPT !.state = "failed"]
         IN After([row EXCEPT !.info = f.info, !.state = f.state], f, "end", NoRaise)
    ELSE After(SaveInfo(row, merged), merged, "end", NoRaise)

\* A mutant of UpdatePayment: the payment is failed with the object's info,
\* the answer left out
UpdatePayment_FailUnmerged(pc, row, copy, d) ==
    LET merged == [copy EXCEPT !.info = Merge(copy.info, d)] IN
    IF pc = "apply" /\ d.status = "SUCCESSFUL"
    THEN After(SaveInfo(row, merged), merged, "confirm", NoRaise)
    ELSE IF pc = "confirm"
    THEN LET c == confirm(row, copy) IN After(c.row, c.copy, "store", NoRaise)
    ELSE IF d.status = "FAILED" /\ copy.state \in Open("payment")
    THEN LET f == fail(row, copy, copy.info) IN After(f.row, f.copy, "end", NoRaise)
    ELSE After(SaveInfo(row, merged), merged, "end", NoRaise)

\* A mutant of UpdatePayment: an answer that is neither SUCCESSFUL nor FAILED
\* is not stored
UpdatePayment_DropOther(pc, row, copy, d) ==
    LET merged == [copy EXCEPT !.info = Merge(copy.info, d)] IN
    IF pc = "apply" /\ d.status = "SUCCESSFUL"
    THEN After(SaveInfo(row, merged), merged, "confirm", NoRaise)
    ELSE IF pc = "confirm"
    THEN LET c == confirm(row, copy) IN After(c.row, c.copy, "store", NoRaise)
    ELSE IF d.status = "FAILED" /\ copy.state \in Open("payment")
    THEN LET f == fail(row, copy, merged.info) IN After(f.row, f.copy, "end", NoRaise)
    ELSE IF d.status \in {"SUCCESSFUL", "FAILED"}
    THEN After(SaveInfo(row, merged), merged, "end", NoRaise)
    ELSE After(row, copy, "end", NoRaise)

\* _update_payment, the else branch, one statement that writes at a time.
\* "apply": on SUCCESSFUL the merged info is saved (any other status goes
\* straight to the second test); "confirm": payment.confirm(); "store": the
\* second test, fail() for FAILED with the object in an open state, else the
\* merged info saved
UpdatePayment(pc, row, copy, d) ==
    LET merged == [copy EXCEPT !.info = Merge(copy.info, d)] IN
    IF pc = "apply" /\ d.status = "SUCCESSFUL"
    THEN After(SaveInfo(row, merged), merged, "confirm", NoRaise)
    ELSE IF pc = "confirm"
    THEN LET c == confirm(row, copy) IN After(c.row, c.copy, "store", NoRaise)
    ELSE IF d.status = "FAILED" /\ copy.state \in Open("payment")
    THEN LET f == fail(row, copy, merged.info) IN After(f.row, f.copy, "end", NoRaise)
    ELSE After(SaveInfo(row, merged), merged, "end", NoRaise)

Trouble == "We had trouble communicating with the payment service."

\* A mutant of UpdateRefund: the exception carries the generic message
UpdateRefund_GenericMessage(pc, row, copy, d) ==
    LET merged == [copy EXCEPT !.info = Merge(copy.info, d)] IN
    IF pc = "apply" /\ d.status = "SUCCESSFUL"
    THEN After(SaveInfo(row, merged), merged, "confirm", NoRaise)
    ELSE IF pc = "confirm"
    THEN LET c == done(row, copy) IN After(c.row, c.copy, "store", NoRaise)
    ELSE IF d.status = "FAILED" /\ copy.state \in Open("refund")
    THEN After(row, copy, "end", PaymentException(Trouble))
    ELSE After(SaveInfo(row, merged), merged, "end", NoRaise)

\* _update_refund, the else branch, one statement that writes at a time:
\* as _update_payment, with refund.done() for confirm() and the
\* PaymentException carrying the reason for fail()
UpdateRefund(pc, row, copy, d) ==
    LET merged == [copy EXCEPT !.info = Merge(copy.info, d)] IN
    IF pc = "apply" /\ d.status = "SUCCESSFUL"
    THEN After(SaveInfo(row, merged), merged, "confirm", NoRaise)
    ELSE IF pc = "confirm"
    THEN LET c == done(row, copy) IN After(c.row, c.copy, "store", NoRaise)
    ELSE IF d.status = "FAILED" /\ copy.state \in Open("refund")
    THEN After(row, copy, "end", PaymentException(d.reason))
    ELSE After(SaveInfo(row, merged), merged, "end", NoRaise)

\* str(e) of the transport error
ErrorText == "RequestException"

\* A mutant of ExecutePayment: a transport error raises the exception and
\* leaves the payment as it is, as execute_refund does
ExecutePayment_NoFail(ok, row, copy, refid) ==
    IF ok
    THEN LET c == [copy EXCEPT !.state = "pending"]
         IN After(SaveState(row, c), c, "token", NoRaise)
    ELSE After(row, copy, "end", PaymentException(Trouble))

\* A mutant of ExecutePayment: the call ends once the payment is pending,
\* without the reconciliation
ExecutePayment_NoReconcile(ok, row, copy, refid) ==
    IF ok
    THEN LET c == [copy EXCEPT !.state = "pending"]
         IN After(SaveState(row, c), c, "end", NoRaise)
    ELSE LET f == fail(row, copy, [reference |-> refid, error |-> ErrorText])
         IN After(f.row, f.copy, "end", PaymentException(Trouble))

\* execute_payment, after its try block.  The else branch (ok): the object
\* set pending and its state saved, _update_payment next.  The except branch:
\* the payment failed with the reference and the error string, and the
\* PaymentException
ExecutePayment(ok, row, copy, refid) ==
    IF ok
    THEN LET c == [copy EXCEPT !.state = "pending"]
         IN After(SaveState(row, c), c, "token", NoRaise)
    ELSE LET f == fail(row, copy, [reference |-> refid, error |-> ErrorText])
         IN After(f.row, f.copy, "end", PaymentException(Trouble))

\* execute_refund, after its try block: as execute_payment, but the except
\* branch writes nothing
ExecuteRefund(ok, row, copy, refid) ==
    IF ok
    THEN LET c == [copy EXCEPT !.state = "transit"]
         IN After(SaveState(row, c), c, "token", NoRaise)
    ELSE After(row, copy, "end", PaymentException(Trouble))

----------------------------------------------------------------------------
(* Handlers.  A handler (a webhook request, a check task run by a worker,  *)
(* an initiator called by the host) runs on a thread of its own, one step  *)
(* at a time: a step runs up to the next wait for the provider or the next *)
(* statement that writes the row.  Other handlers and the provider act in  *)
(* between; no lock is held from one step to the next.  tproc.threads is   *)
(* the bag of the handlers that have started and not ended.                *)

\* a handler's position and locals: the handler (h), the row it works on
\* (kind, id), the object it holds (copy) and how it loaded it (pre), the
\* reference it drew (refid), the X-Reference-Id values it sent, its own
\* get_token outcome (first), whether it reached the reconciler, the
\* provider's status when its status GET was sent (asked) and the answer to
\* it (get), the key of the get_token call it is in (api), the outcome of the
\* get_token statement of this step (tok, token) and the body of the token
\* POST's answer on its way to the cache (token_hash), the tasks it enqueued
\* (enq), and whether no other handler has written the row since this one
\* loaded it (alone)
NoThread ==
    [h |-> "", pc |-> "idle", kind |-> "", id |-> UnknownId, param |-> "none",
     copy |-> NoPre, pre |-> NoPre, refid |-> 0, sent |-> {}, first |-> "",
     reconciled |-> FALSE, asked |-> "", api |-> "", tok |-> "", token |-> NoToken,
     token_hash |-> NoHash, get |-> NoGet, enq |-> {}, alone |-> TRUE]

\* the handlers in progress
Running == BagToSet(tproc.threads)

\* tproc.left where the handler calls of a behaviour are not counted
NoLimit == 0 - 1

\* a thread is free for a new handler (tproc.cap: the threads the deployment
\* has), and a call is left to explore
Free == BagCardinality(tproc.threads) < tproc.cap /\ tproc.left # 0

\* a handler that works on no row
NoRow == [provider |-> "", state |-> "", info |-> NoInfo, created |-> 0]

\* the database row of a record
Row(kind, i) ==
    IF kind = "payment" THEN payments[i]
    ELSE IF kind = "refund" THEN refunds[i]
    ELSE NoRow

\* the row is written
Store(kind, i, rec) ==
    /\ payments' = IF kind = "payment" THEN [payments EXCEPT ![i] = rec] ELSE payments
    /\ refunds' = IF kind = "refund" THEN [refunds EXCEPT ![i] = rec] ELSE refunds

\* the other handlers at work on a row that has just been changed are no
\* longer alone with it
Disturbed(ths, kind, i) ==
    LET Other(x) == IF x.kind = kind /\ x.id = i THEN [x EXCEPT !.alone = FALSE] ELSE x
    IN BagOfAll(Other, ths)

\* What the step taken last did.  op is the handler's name when the step
\* ended the handler, "step" before that.
Idle ==
    [op |-> "none",          \* the handler that ended
     h |-> "",               \* the handler that took the step
     step |-> "",            \* the statement
     kind |-> "",            \* payment or refund
     param |-> "none",       \* webhook: the query parameter it acted on
     id |-> UnknownId,       \* the row it was given
     pre |-> NoPre,          \* the object as the handler loaded it
     row |-> NoPre,          \* state and info of the row before the step
     alone |-> TRUE,         \* no other handler wrote the row during the call
     reconciled |-> FALSE,   \* _update_payment / _update_refund was called
     api |-> "",             \* the key of the get_token call it is in
     tok |-> "",             \* the outcome of the get_token statement of the step
     polled |-> FALSE,       \* the reconciler's status GET was answered
     get |-> NoGet,          \* and got this
     raised |-> "none",      \* exception leaving the handler
     msg |-> "",
     http |-> "",            \* a view's response
     enq |-> {},             \* tasks it enqueued
     times |-> <<>>,         \* the sweep: now() of its queries
     first |-> "",           \* an initiator's own get_token outcome
     refid |-> 0,            \* the reference an initiator drew
     sent |-> {},            \* X-Reference-Id values it sent to the provider
     token |-> NoToken,      \* get_token: the token returned
     at |-> now]             \* when it finished

Response(exc) == IF exc.raised = "none" THEN "200 OK" ELSE "500"

\* the record of a step of thread record th, the row being row before it
Report(th, step, row, exc, ended) ==
    [Idle EXCEPT !.op = IF ended THEN th.h ELSE "step",
                 !.h = th.h, !.step = step, !.kind = th.kind, !.param = th.param,
                 !.id = th.id, !.pre = th.pre, !.row = Pre(row), !.alone = th.alone,
                 !.reconciled = th.reconciled, !.api = th.api, !.tok = th.tok,
                 !.token = th.token,
                 !.polled = (th.reconciled /\ step \in {"poll", "confirm", "store"}),
                 !.get = th.get,
                 !.raised = exc.raised, !.msg = exc.msg,
                 !.http = IF ended /\ th.h = "webhook" THEN Response(exc) ELSE "",
                 !.enq = th.enq,
                 !.first = th.first, !.refid = th.refid, !.sent = th.sent]

\* The handler whose record was was (NoThread: it starts now) takes a step:
\* th is its record after the step, a.row the row as the step leaves it,
\* a.pc = "end" when the handler returns or raises; provider is the provider's
\* side after the step
Taken(was, step, th, a, provider) ==
    LET before == Row(th.kind, th.id)
        ended == a.pc = "end"
        mine == [th EXCEPT !.pc = a.pc, !.copy = a.copy]
        rest == tproc.threads (-) SetToBag({was})
        others == IF a.row = before THEN rest ELSE Disturbed(rest, th.kind, th.id)
    IN /\ Store(th.kind, th.id, a.row)
       /\ tproc' = [threads |-> IF ended THEN others
                                ELSE others (+) SetToBag({[mine EXCEPT !.tok = "",
                                                                           !.token = NoToken]}),
                    provider |-> provider,
                    sweep |-> tproc.sweep,
                    fetched |-> IF step = "set" /\ was.api \in DOMAIN tproc.fetched
                                THEN [tproc.fetched EXCEPT ![was.api] =
                                         [token_hash |-> was.token_hash, at |-> now]]
                                ELSE tproc.fetched,
                    cap |-> tproc.cap,
                    left |-> IF was = NoThread /\ tproc.left > 0 THEN tproc.left - 1
                             ELSE tproc.left]
       /\ last' = Report(mine, step, before, a.exc, ended)

\* a step that sends the provider nothing new
Step(was, step, th, a) == Taken(was, step, th, a, tproc.provider)

----------------------------------------------------------------------------
(* The provider's side of a charge or refund.  tproc.provider.status is    *)
(* "any" where the provider may answer a status GET with any body, or the  *)
(* status it has for the references it knows.                              *)

\* the body the provider answers while its status for the reference is st
ProviderBody(st) ==
    CHOOSE d \in StatusBodies :
        /\ "status" \in DOMAIN d
        /\ d.status = st
        /\ DOMAIN d \subseteq {"status", "payer", "reason"}

\* the answers of the status GET for a reference: a transport error, a 404
\* while the provider does not know the reference, else the status the
\* provider had at some time since the reconciler was called (asked)
RaceGetOutcomes(ref, asked) ==
    {NoGet} \cup
    IF ref \in tproc.provider.known
    THEN {[ok |-> TRUE, body |-> ProviderBody(st)] : st \in {asked, tproc.provider.status}}
    ELSE {}

\* the answers the status GET of a handler may get
GetChoices(th) ==
    IF tproc.provider.status = "any" THEN GetOutcomes
    ELSE RaceGetOutcomes(th.copy.info.reference, th.asked)

\* the provider settles the charge or refund it was sent
ProviderResolves ==
    /\ tproc.provider.known # {}
    /\ tproc.provider.status = "PENDING"
    /\ \E st \in {"SUCCESSFUL", "FAILED"} :
         tproc' = [tproc EXCEPT !.provider.status = st]
    /\ last' = [Idle EXCEPT !.op = "provider"]
    /\ UNCHANGED <<payments, refunds, cache, now, queue, nextRef>>

----------------------------------------------------------------------------
(* Reconciliation: the handlers that load a row and call its reconciler    *)

\* the decimal numerals of the primary keys 1, 2 and 3
Numerals == <<"1", "2", "3">>

\* the values the payment or refund parameter of a webhook request may have:
\* the numeral of a row's primary key or of a key no row has, a word, or
\* nothing
WebhookIds == {Numerals[n] : n \in DOMAIN Numerals} \cup {"abc", ""}

\* filter(pk=value) with a string from the query: the primary key field
\* converts it with int(value), which raises ValueError for a value that is
\* no numeral
IsNumeral(value) == \E n \in DOMAIN Numerals : Numerals[n] = value

ToPk(value) == CHOOSE n \in DOMAIN Numerals : Numerals[n] = value

\* the parameter the view acts on: payment, else refund, else none
Param(GET) ==
    IF "payment" \in DOMAIN GET THEN "payment"
    ELSE IF "refund" \in DOMAIN GET THEN "refund"
    ELSE "none"

\* request.GET of a webhook call
QueryDicts ==
    UNION {[keys -> WebhookIds] : keys \in SUBSET {"payment", "refund"}}

\* OrderPayment.objects.filter(provider="mtn_momo", pk=...)
PaymentRows(pk) ==
    {i \in PaymentIds : payments[i].provider = identifier /\ i = pk}

RefundRows(pk) ==
    {i \in RefundIds : refunds[i].provider = identifier /\ i = pk}

\* the rows this provider handles
OwnPayments == {i \in PaymentIds : payments[i].provider = identifier}

OwnRefunds == {i \in RefundIds : refunds[i].provider = identifier}

\* The handler h starts: it has loaded row i and calls its reconciler, which
\* reads the reference of the object: without one it raises KeyError
Reconcile(h, param, kind, i) ==
    LET row == Row(kind, i)
        th == [NoThread EXCEPT !.h = h, !.kind = kind, !.id = i, !.param = param,
                               !.copy = Pre(row), !.pre = Pre(row),
                               !.reconciled = TRUE, !.api = Api(kind)]
    IN IF "reference" \in DOMAIN row.info
       THEN Step(NoThread, "load", th, After(row, th.copy, "token", NoRaise))
       ELSE Step(NoThread, "load", th, After(row, th.copy, "end", KeyError))

\* views.webhook, a payment selected
WebhookPayment(GET) ==
    /\ Param(GET) = "payment"
    /\ IsNumeral(GET.payment)
    /\ \E i \in PaymentRows(ToPk(GET.payment)) :
          Reconcile("webhook", "payment", "payment", i)
    /\ UNCHANGED <<cache, now, queue, nextRef>>

\* views.webhook, a refund selected
WebhookRefund(GET) ==
    /\ Param(GET) = "refund"
    /\ IsNumeral(GET.refund)
    /\ \E i \in RefundRows(ToPk(GET.refund)) :
          Reconcile("webhook", "refund", "refund", i)
    /\ UNCHANGED <<cache, now, queue, nextRef>>

\* views.webhook, no row selected: the loop body does not run
WebhookNone(GET) ==
    /\ \/ Param(GET) = "payment" /\ IsNumeral(GET.payment)
          /\ PaymentRows(ToPk(GET.payment)) = {}
       \/ Param(GET) = "refund" /\ IsNumeral(GET.refund)
          /\ RefundRows(ToPk(GET.refund)) = {}
       \/ Param(GET) = "none"
    /\ last' = [Idle EXCEPT !.op = "webhook", !.h = "webhook",
                   !.http = Response(NoRaise),
                   !.param = Param(GET),
                   !.id = IF Param(GET) = "none" THEN UnknownId
                          ELSE ToPk(GET[Param(GET)])]
    /\ UNCHANGED <<payments, refunds, cache, now, queue, nextRef, tproc>>

\* views.webhook, the parameter is no numeral: filter() raises ValueError,
\* which leaves the view
WebhookValueError(GET) ==
    /\ Param(GET) # "none"
    /\ ~IsNumeral(GET[Param(GET)])
    /\ last' = [Idle EXCEPT !.op = "webhook", !.h = "webhook",
                   !.http = Response(ValueError),
                   !.raised = ValueError.raised,
                   !.param = Param(GET)]
    /\ UNCHANGED <<payments, refunds, cache, now, queue, nextRef, tproc>>

\* views.webhook: the request arrives on a free thread, the row is loaded
webhook == \E GET \in QueryDicts :
    /\ Free
    /\ \/ WebhookPayment(GET)
       \/ WebhookRefund(GET)
       \/ WebhookNone(GET)
       \/ WebhookValueError(GET)

\* tasks.check_payment: a worker takes one message and loads the row
check_payment == \E i \in PaymentIds :
    /\ Free
    /\ BagIn(<<"check_payment", i>>, queue)
    /\ queue' = queue (-) SetToBag({<<"check_payment", i>>})
    /\ Reconcile("check_payment", "none", "payment", i)
    /\ UNCHANGED <<cache, now, nextRef>>

\* tasks.check_refund: a worker takes one message and loads the row
check_refund == \E i \in RefundIds :
    /\ Free
    /\ BagIn(<<"check_refund", i>>, queue)
    /\ queue' = queue (-) SetToBag({<<"check_refund", i>>})
    /\ Reconcile("check_refund", "none", "refund", i)
    /\ UNCHANGED <<cache, now, nextRef>>

\* the else branch of the reconciler of a payment or a refund
Update(kind, pc, row, copy, d) ==
    IF kind = "payment" THEN UpdatePayment(pc, row, copy, d)
    ELSE UpdateRefund(pc, row, copy, d)

\* _update_payment / _update_refund, from the answer to the status GET on:
\* the GET for the reference of the object is answered now, and with a status
\* the else branch runs up to its first statement that writes
PollStatus == \E th \in Running :
    LET row == Row(th.kind, th.id) IN
    /\ th.pc = "get"
    /\ \E get \in GetChoices(th) :
         LET o == Poll(get) IN
         Step(th, "poll", [th EXCEPT !.get = get],
              IF o.pc = "apply"
              THEN Update(th.kind, "apply", row, th.copy, get.body)
              ELSE After(row, th.copy, o.pc, o.exc))
    /\ UNCHANGED <<cache, now, queue, nextRef>>

\* _update_payment / _update_refund after the SUCCESSFUL answer was saved:
\* the next statement that writes
ApplyStatus == \E th \in Running :
    /\ th.pc \in {"confirm", "store"}
    /\ Step(th, th.pc, th, Update(th.kind, th.pc, Row(th.kind, th.id), th.copy, th.get.body))
    /\ UNCHANGED <<cache, now, queue, nextRef>>

----------------------------------------------------------------------------
(* The task queue: celery keeps one message per apply_async call           *)

\* apply_async for each of the messages, the queue not being full
Enqueue(enq) ==
    /\ \A m \in enq : CopiesIn(m, queue) < MaxQueued
    /\ queue' = queue (+) SetToBag(enq)

\* A mutant of SweepPayments: the creation window left out of the filter
SweepPayments_NoWindow(t) ==
    {i \in PaymentIds : /\ payments[i].provider = identifier
                        /\ payments[i].state = "pending"}

\* The rows the periodic sweep selects at time t
SweepPayments(t) ==
    {i \in PaymentIds : /\ payments[i].provider = identifier
                        /\ payments[i].state = "pending"
                        /\ payments[i].created > t - Day}

\* A mutant of SweepRefunds: the creation window left out of the filter
SweepRefunds_NoWindow(t) ==
    {i \in RefundIds : /\ refunds[i].provider = identifier
                       /\ refunds[i].state = "transit"}

SweepRefunds(t) ==
    {i \in RefundIds : /\ refunds[i].provider = identifier
                       /\ refunds[i].state = "transit"
                       /\ refunds[i].created > t - Day}

\* The periodic sweep in progress: the loop it is in, the rows of its query
\* it has not yet enqueued a task for, the messages it has added, and now()
\* of its queries
NoSweep == [pc |-> "idle", rows |-> {}, enq |-> {}, times |-> <<>>]

\* the sweep returns
SweepEnds(sw) ==
    /\ tproc' = [tproc EXCEPT !.sweep = NoSweep]
    /\ last' = [Idle EXCEPT !.op = "sweep", !.h = "sweep", !.enq = sw.enq,
                            !.times = sw.times]

\* the sweep goes on
SweepGoesOn(sw, step) ==
    /\ tproc' = [tproc EXCEPT !.sweep = sw]
    /\ last' = [Idle EXCEPT !.op = "step", !.h = "sweep", !.step = step,
                            !.enq = sw.enq \ tproc.sweep.enq, !.times = sw.times]

\* signals.register_periodic_task is called: the query for the payments
register_periodic_task ==
    /\ tproc.sweep.pc = "idle"
    /\ SweepGoesOn([pc |-> "payments", rows |-> SweepPayments(now), enq |-> {},
                    times |-> <<now>>], "payments")
    /\ UNCHANGED <<payments, refunds, cache, now, queue, nextRef>>

\* the sweep, the query for the refunds once the payments are done; without
\* a row the sweep returns
SweepRefundQuery ==
    LET sw == [tproc.sweep EXCEPT !.pc = "refunds", !.rows = SweepRefunds(now),
                                  !.times = Append(@, now)]
    IN
    /\ tproc.sweep.pc = "payments"
    /\ tproc.sweep.rows = {}
    /\ IF sw.rows = {} THEN SweepEnds(sw) ELSE SweepGoesOn(sw, "refunds")
    /\ UNCHANGED <<payments, refunds, cache, now, queue, nextRef>>

\* the task the sweep enqueues for the rows of the query it is at
SweepTaskName(pc) == IF pc = "payments" THEN "check_payment" ELSE "check_refund"

\* the sweep, apply_async for a row of the query it is at: check_payment for
\* a row of the first query, check_refund for a row of the second; after the
\* last row of the second query the sweep returns
SweepTask == \E i \in tproc.sweep.rows :
    LET task == <<SweepTaskName(tproc.sweep.pc), i>>
        sw == [tproc.sweep EXCEPT !.rows = @ \ {i}, !.enq = @ \cup {task}]
    IN
    /\ tproc.sweep.pc \in {"payments", "refunds"}
    /\ Enqueue({task})
    /\ IF sw.pc = "refunds" /\ sw.rows = {}
       THEN SweepEnds(sw)
       ELSE SweepGoesOn(sw, "apply_async")
    /\ UNCHANGED <<payments, refunds, cache, now, nextRef>>

\* MTNMoMo.payment_pending_render is called with a payment the host has
\* loaded
payment_pending_render == \E i \in OwnPayments :
    LET row == payments[i]
        th == [NoThread EXCEPT !.h = "pending_render", !.kind = "payment", !.id = i,
                               !.copy = Pre(row), !.pre = Pre(row)]
    IN /\ Free
       /\ Step(NoThread, "load", th, After(row, th.copy, "render", NoRaise))
       /\ UNCHANGED <<cache, now, queue, nextRef>>

\* MTNMoMo.payment_pending_render, as far as it acts: the task enqueued for
\* an object that is pending
RenderPending == \E th \in Running :
    LET enq == IF th.copy.state = "pending" THEN {<<"check_payment", th.id>>} ELSE {}
    IN /\ th.pc = "render"
       /\ Enqueue(enq)
       /\ Step(th, "render", [th EXCEPT !.enq = enq],
               After(Row(th.kind, th.id), th.copy, "end", NoRaise))
       /\ UNCHANGED <<cache, now, nextRef>>

----------------------------------------------------------------------------
(* Initiators *)

\* The host calls the initiator h for row i, which is in state created: the
\* reference is drawn, put in the object and saved
Initiate(h, kind, i) ==
    LET row == Row(kind, i)
        refid == nextRef + 1
        copy == [Pre(row) EXCEPT !.info = [reference |-> refid]]
        th == [NoThread EXCEPT !.h = h, !.kind = kind, !.id = i, !.copy = copy,
                               !.pre = Pre(row), !.refid = refid, !.api = Api(kind)]
    IN /\ Free
       /\ row.state = "created"
       /\ nextRef < MaxRefs
       /\ nextRef' = refid
       /\ Step(NoThread, "save", th, After(SaveInfo(row, copy), copy, "token", NoRaise))
       /\ UNCHANGED <<cache, now, queue>>

\* execute_payment: uuid4 and the first save
execute_payment == \E i \in OwnPayments :
    Initiate("execute_payment", "payment", i)

\* execute_refund: uuid4 and the first save
execute_refund == \E i \in OwnRefunds :
    Initiate("execute_refund", "refund", i)

\* the statements after the try block of the initiator
Execute(kind, ok, row, copy, refid) ==
    IF kind = "payment" THEN ExecutePayment(ok, row, copy, refid)
    ELSE ExecuteRefund(ok, row, copy, refid)

\* Where a get_token statement with the given result leaves the handler.  A
\* token takes a reconciler to its status GET, an initiator to its POST, and
\* ends a bare call.  An exception leaves a bare call as it is, goes through
\* the except clause in a reconciler, and in an initiator takes the except
\* branch if it is a transport error
TokenNext(th, row, result) ==
    IF result = "miss" THEN After(row, th.copy, "fetch", NoRaise)
    ELSE IF result = "posted" THEN After(row, th.copy, "set", NoRaise)
    ELSE IF th.h = "get_token" THEN After(row, th.copy, "end", TokenRaises(result))
    ELSE IF TokenOk(result)
    THEN After(row, th.copy, IF th.reconciled THEN "get" ELSE "post", NoRaise)
    ELSE IF th.reconciled
    THEN After(row, th.copy, "end", Caught(TokenRaises(result)))
    ELSE IF result = "transport"
    THEN Execute(th.kind, FALSE, row, th.copy, th.refid)
    ELSE After(row, th.copy, "end", TokenRaises(result))

\* the handler after a get_token statement that leaves it at a.pc: an
\* initiator keeps the outcome of its own call, a reconciler that has its
\* token sends the status GET
Got(th, a, result, token, token_hash) ==
    [th EXCEPT !.tok = result, !.token = token, !.token_hash = token_hash,
               !.first = IF th.h # "get_token" /\ ~th.reconciled
                            /\ result \notin {"miss", "posted"}
                         THEN result ELSE @,
               !.asked = IF a.pc = "get" THEN tproc.provider.status ELSE @]

\* the cache read of the get_token call of handler th (was: its record
\* before, NoThread when the call starts with it)
ReadCache(was, th) ==
    LET g == TokenCached(cache, now, th.api)
        a == TokenNext(th, Row(th.kind, th.id), g.result)
    IN /\ Step(was, "token", Got(th, a, g.result, g.token, NoHash), a)
       /\ UNCHANGED <<cache, now, queue, nextRef>>

\* get_token called by a handler: the cache read
TokenGet == \E th \in Running :
    /\ th.pc = "token"
    /\ ReadCache(th, th)

\* get_token called on its own, for an API family of the token model: the
\* cache read
get_token == \E api \in DOMAIN tproc.fetched :
    /\ Free
    /\ ReadCache(NoThread, [NoThread EXCEPT !.h = "get_token", !.api = api])

\* get_token, the token POST is answered: the provider issues the token now
TokenPost == \E th \in Running :
    /\ th.pc = "fetch"
    /\ \E post \in PostOutcomes :
         LET r == TokenAnswer(post, now)
             a == TokenNext(th, Row(th.kind, th.id), r.result)
         IN Step(th, "fetch", Got(th, a, r.result, NoToken, r.token_hash), a)
    /\ UNCHANGED <<cache, now, queue, nextRef>>

\* get_token, the cache write and the return of the fetched token
TokenSet == \E th \in Running :
    LET g == TokenStore(cache, now, th.api, th.token_hash)
        a == TokenNext(th, Row(th.kind, th.id), g.result)
    IN
    /\ th.pc = "set"
    /\ cache' = g.cache
    /\ Step(th, "set", Got(th, a, g.result, g.token, NoHash), a)
    /\ UNCHANGED <<now, queue, nextRef>>

\* the reference of the payment a refund is for, read for the refund POST
PaidReference(th) ==
    IF th.kind = "payment" THEN {0}
    ELSE LET paid == payments[refunds[th.id].payment].info
         IN IF "reference" \in DOMAIN paid THEN {paid.reference} ELSE {}

\* the requesttopay / refund POST with X-Reference-Id refid is sent: it
\* reaches the provider, or it is lost on its way
SendRequest == \E th \in Running :
    LET row == Row(th.kind, th.id)
        sent == [th EXCEPT !.sent = {th.refid}]
    IN
    /\ th.pc = "post"
    /\ IF PaidReference(th) = {}
       THEN Step(th, "post", th, After(row, th.copy, "end", KeyError))
       ELSE \E delivered \in BOOLEAN :
              Taken(th, "post", sent, After(row, th.copy, "state", NoRaise),
                    IF delivered
                    THEN [tproc.provider EXCEPT !.known = @ \cup {th.refid}]
                    ELSE tproc.provider)
    /\ UNCHANGED <<cache, now, queue, nextRef>>

\* the handler after the statement that called its reconciler
Reached(th, a) == [th EXCEPT !.reconciled = (a.pc = "token")]

\* the answers the requesttopay / refund POST of a handler may get: a 2xx
\* answer when the request has reached the provider; an error answer, or no
\* answer, whether it has or not
Accepted(th) ==
    IF th.refid \in tproc.provider.known THEN BOOLEAN ELSE {FALSE}

\* the POST is answered.  The else branch of the initiator: the state saved,
\* and the reconciler called on the object; the except branch after an error
MarkSubmitted == \E th \in Running :
    /\ th.pc = "state"
    /\ \E ok \in Accepted(th) :
         LET a == Execute(th.kind, ok, Row(th.kind, th.id), th.copy, th.refid)
         IN Step(th, IF ok THEN "state" ELSE "except", Reached(th, a), a)
    /\ UNCHANGED <<cache, now, queue, nextRef>>

----------------------------------------------------------------------------
(* The payment lifecycle: every trigger source and the payment initiator,  *)
(* on any thread.  The provider answers a status GET with any body.  No    *)
(* refund is started: refund 1 stays as the host created it.               *)

\* the clock advances; expired cache entries are gone
Tick ==
    /\ now < MaxTicks * SweepTick
    /\ now' = now + SweepTick
    /\ cache' = CachePurge(cache, now')
    /\ last' = [Idle EXCEPT !.op = "tick", !.at = now']
    /\ UNCHANGED <<payments, refunds, queue, nextRef, tproc>>

PaymentStates == {"created", "pending", "confirmed", "failed"}

RefundStates == {"created", "transit", "done", "failed"}

\* the info of a row in state st: a reference once the initiator has run
InfoIn(st, i) == IF st = "created" THEN NoInfo ELSE [reference |-> i]

\* no handler and no sweep in progress; the provider, the calls to explore
\* and the threads as given
NoProcs(provider, left, cap) ==
    [threads |-> EmptyBag, provider |-> provider, sweep |-> NoSweep,
     fetched |-> [api \in {} |-> NoHash], left |-> left, cap |-> cap]

\* a provider that may answer anything
AnyProvider == [status |-> "any", known |-> {}]

EmptyCache == [k \in {} |-> "x"]

Init ==
    /\ \E st \in {"created", "pending"} :
          /\ payments = [i \in PaymentIds |->
                           [provider |-> IF i = 1 THEN identifier ELSE "other",
                            state |-> IF i = 1 THEN st ELSE "pending",
                            info |-> IF i = 1 THEN InfoIn(st, 1) ELSE NoInfo,
                            created |-> 0]]
          /\ nextRef = IF st = "created" THEN 0 ELSE 1
    /\ refunds = [i \in RefundIds |->
                     [provider |-> IF i = 1 THEN identifier ELSE "other",
                      state |-> IF i = 1 THEN "created" ELSE "transit",
                      info |-> NoInfo,
                      created |-> 0,
                      payment |-> i]]
    /\ cache = EmptyCache
    /\ now = 0
    /\ queue = EmptyBag
    /\ tproc = NoProcs(AnyProvider, MaxCalls, MaxThreads)
    /\ last = Idle

\* the statements of the sweep after its first query
SweepStep ==
    \/ SweepTask
    \/ SweepRefundQuery

\* the statements of get_token
TokenStep ==
    \/ TokenGet
    \/ TokenPost
    \/ TokenSet

\* the statements of a reconciler after its get_token call
ReconcileStep ==
    \/ PollStatus
    \/ ApplyStatus

\* the statements of an initiator after its get_token call
InitiateStep ==
    \/ SendRequest
    \/ MarkSubmitted

Next ==
    \/ webhook
    \/ check_payment
    \/ register_periodic_task
    \/ SweepStep
    \/ payment_pending_render
    \/ RenderPending
    \/ execute_payment
    \/ TokenStep
    \/ ReconcileStep
    \/ InitiateStep

Spec == Init /\ [][Next]_vars

----------------------------------------------------------------------------
(* The refund lifecycle: payment 1 has been paid (reference 1 confirmed),  *)
(* and refund 1 is started and reconciled.                                 *)

PaidInfo == [reference |-> 1, status |-> "SUCCESSFUL", payer |-> "msisdn"]

InitRefund ==
    /\ payments = [i \in PaymentIds |->
                     [provider |-> IF i = 1 THEN identifier ELSE "other",
                      state |-> IF i = 1 THEN "confirmed" ELSE "pending",
                      info |-> IF i = 1 THEN PaidInfo ELSE NoInfo,
                      created |-> 0]]
    /\ \E st \in {"created", "transit"} :
          /\ refunds = [i \in RefundIds |->
                          [provider |-> IF i = 1 THEN identifier ELSE "other",
                           state |-> IF i = 1 THEN st ELSE "transit",
                           info |-> IF i = 1 THEN InfoIn(st, 2) ELSE NoInfo,
                           created |-> 0,
                           payment |-> i]]
          /\ nextRef = IF st = "created" THEN 1 ELSE 2
    /\ cache = EmptyCache
    /\ now = 0
    /\ queue = EmptyBag
    /\ tproc = NoProcs(AnyProvider, MaxCalls, MaxThreads)
    /\ last = Idle

\* webhook calls that name no payment
RefundQueryDicts == {GET \in QueryDicts : "payment" \notin DOMAIN GET}

\* views.webhook, called without a payment parameter
webhook_refund == \E GET \in RefundQueryDicts :
    /\ Free
    /\ \/ WebhookRefund(GET)
       \/ WebhookNone(GET)
       \/ WebhookValueError(GET)

NextRefund ==
    \/ webhook_refund
    \/ check_refund
    \/ register_periodic_task
    \/ SweepStep
    \/ execute_refund
    \/ TokenStep
    \/ ReconcileStep
    \/ InitiateStep

SpecRefund == InitRefund /\ [][NextRefund]_vars

----------------------------------------------------------------------------
(* The periodic sweep over rows in any state: each row starts in one of    *)
(* the states the host and the reconcilers leave rows in, created now or   *)
(* half a day ago, and the sweep runs as the clock advances.               *)

InitSweep ==
    /\ \E st \in [PaymentIds -> PaymentStates] :
       \E cr \in [PaymentIds -> {0, 0 - SweepTick}] :
          payments = [i \in PaymentIds |->
                        [provider |-> IF i = 1 THEN identifier ELSE "other",
                         state |-> st[i],
                         info |-> InfoIn(st[i], i),
                         created |-> cr[i]]]
    /\ \E st \in [RefundIds -> RefundStates] :
       \E cr \in [RefundIds -> {0, 0 - SweepTick}] :
          refunds = [i \in RefundIds |->
                        [provider |-> IF i = 1 THEN identifier ELSE "other",
                         state |-> st[i],
                         info |-> InfoIn(st[i], i),
                         created |-> cr[i],
                         payment |-> i]]
    /\ cache = EmptyCache
    /\ now = 0
    /\ queue = EmptyBag
    /\ nextRef = MaxRefs
    /\ tproc = NoProcs(AnyProvider, NoLimit, MaxThreads)
    /\ last = Idle

NextSweep ==
    \/ register_periodic_task
    \/ SweepStep
    \/ Tick

SpecSweep == InitSweep /\ [][NextSweep]_vars

----------------------------------------------------------------------------
(* The token cache under concurrent callers: two callers at a time run     *)
(* get_token for the collection API, one statement at a time, and the      *)
(* clock may advance between any two statements.  tproc.fetched keeps, per *)
(* cache key, the body that the latest fetch passed to cache.set, and      *)
(* when.                                                                   *)

\* the clock advances; expired cache entries are gone
TickToken ==
    /\ now < MaxTokenTicks * TokenTick
    /\ now' = now + TokenTick
    /\ cache' = CachePurge(cache, now')
    /\ last' = [Idle EXCEPT !.op = "tick", !.at = now']
    /\ UNCHANGED <<payments, refunds, queue, nextRef, tproc>>

\* nothing fetched yet for the API families apis
NoFetch(apis) == [api \in apis |-> [token_hash |-> NoHash, at |-> 0]]

\* no call in progress, cap callers at a time, calling for the families apis
TokenCallers(cap, apis) ==
    [NoProcs(AnyProvider, NoLimit, cap) EXCEPT !.fetched = NoFetch(apis)]

InitToken ==
    /\ payments = [i \in PaymentIds |->
                     [provider |-> IF i = 1 THEN identifier ELSE "other",
                      state |-> IF i = 1 THEN "created" ELSE "pending",
                      info |-> NoInfo,
                      created |-> 0]]
    /\ refunds = [i \in RefundIds |->
                     [provider |-> IF i = 1 THEN identifier ELSE "other",
                      state |-> IF i = 1 THEN "created" ELSE "transit",
                      info |-> NoInfo,
                      created |-> 0,
                      payment |-> i]]
    /\ cache = EmptyCache
    /\ now = 0
    /\ queue = EmptyBag
    /\ nextRef = 0
    /\ tproc = TokenCallers(MaxThreads, {"collection"})
    /\ last = Idle

NextToken ==
    \/ get_token
    \/ TokenPost
    \/ TokenSet
    \/ TickToken

SpecToken == InitToken /\ [][NextToken]_vars

----------------------------------------------------------------------------
(* The token cache under sequential callers: each get_token call, for      *)
(* either API family, runs to its end before the next starts, one          *)
(* statement at a time, and the clock may advance between any two          *)
(* statements.                                                             *)

InitTokenSeq ==
    /\ payments = [i \in PaymentIds |->
                     [provider |-> IF i = 1 THEN identifier ELSE "other",
                      state |-> IF i = 1 THEN "created" ELSE "pending",
                      info |-> NoInfo,
                      created |-> 0]]
    /\ refunds = [i \in RefundIds |->
                     [provider |-> IF i = 1 THEN identifier ELSE "other",
                      state |-> IF i = 1 THEN "created" ELSE "transit",
                      info |-> NoInfo,
                      created |-> 0,
                      payment |-> i]]
    /\ cache = EmptyCache
    /\ now = 0
    /\ queue = EmptyBag
    /\ nextRef = 0
    /\ tproc = TokenCallers(1, Apis)
    /\ last = Idle

SpecTokenSeq == InitTokenSeq /\ [][NextToken]_vars

----------------------------------------------------------------------------
(* An initiator and the webhook.  The host runs execute_payment on a       *)
(* payment fresh from checkout, or execute_refund on a new refund of a     *)
(* paid payment, once; webhook calls arrive at any time.  The provider     *)
(* knows a reference once the charge or refund POST has reached it, and    *)
(* its status for it goes from PENDING to SUCCESSFUL or FAILED, once.      *)

\* a provider that has the references known, none of them settled
PendingProvider(known) == [status |-> "PENDING", known |-> known]

InitRace ==
    \E mode \in {"execute_payment", "execute_refund"} :
    /\ payments = [i \in PaymentIds |->
                     [provider |-> IF i = 1 THEN identifier ELSE "other",
                      state |-> IF i = 2 THEN "pending"
                                ELSE IF mode = "execute_refund" THEN "confirmed"
                                ELSE "created",
                      info |-> IF i = 2 \/ mode = "execute_payment" THEN NoInfo
                               ELSE PaidInfo,
                      created |-> 0]]
    /\ refunds = [i \in RefundIds |->
                     [provider |-> IF i = 1 THEN identifier ELSE "other",
                      state |-> IF i = 1 THEN "created" ELSE "transit",
                      info |-> NoInfo,
                      created |-> 0,
                      payment |-> i]]
    /\ cache = EmptyCache
    /\ now = 0
    /\ queue = EmptyBag
    /\ nextRef = MaxRefs - 1
    /\ tproc = NoProcs(PendingProvider({}), MaxRaceCalls, MaxThreads)
    /\ last = Idle

NextRace ==
    \/ execute_payment
    \/ execute_refund
    \/ webhook
    \/ TokenStep
    \/ ReconcileStep
    \/ InitiateStep
    \/ ProviderResolves

SpecRace == InitRace /\ [][NextRace]_vars

----------------------------------------------------------------------------
(* Reconcilers interleaved: payment 1 is pending, its charge with the      *)
(* provider; webhook calls arrive, the sweep and the pending page enqueue  *)
(* check_payment tasks and workers run them, on any thread, each on the    *)
(* object it loaded.                                                       *)

InitReconcile ==
    /\ payments = [i \in PaymentIds |->
                     [provider |-> IF i = 1 THEN identifier ELSE "other",
                      state |-> "pending",
                      info |-> IF i = 1 THEN [reference |-> 1] ELSE NoInfo,
                      created |-> 0]]
    /\ refunds = [i \in RefundIds |->
                     [provider |-> IF i = 1 THEN identifier ELSE "other",
                      state |-> IF i = 1 THEN "created" ELSE "transit",
                      info |-> NoInfo,
                      created |-> 0,
                      payment |-> i]]
    /\ cache = EmptyCache
    /\ now = 0
    /\ queue = EmptyBag
    /\ nextRef = 1
    /\ tproc = NoProcs(PendingProvider({1}), MaxRaceCalls, MaxThreads)
    /\ last = Idle

NextReconcile ==
    \/ webhook
    \/ register_periodic_task
    \/ SweepStep
    \/ payment_pending_render
    \/ RenderPending
    \/ check_payment
    \/ TokenStep
    \/ ReconcileStep
    \/ ProviderResolves

SpecReconcile == InitReconcile /\ [][NextReconcile]_vars

----------------------------------------------------------------------------
(* Polling without webhooks: payment 1 is pending, its charge with the     *)
(* provider, and every webhook callback is lost.  The periodic sweep runs, *)
(* workers run the tasks it enqueues, the provider settles the charge at   *)
(* some time, and the clock advances.  One worker process runs the tasks,  *)
(* one at a time.  The sweep is run again and again,                       *)
(* an enqueued task is run in the end and a running task goes on, and a    *)
(* status GET that can be made again and again succeeds in the end.        *)

\* one worker process runs the tasks
InitLive ==
    /\ payments = [i \in PaymentIds |->
                     [provider |-> IF i = 1 THEN identifier ELSE "other",
                      state |-> "pending",
                      info |-> IF i = 1 THEN [reference |-> 1] ELSE NoInfo,
                      created |-> 0]]
    /\ refunds = [i \in RefundIds |->
                     [provider |-> IF i = 1 THEN identifier ELSE "other",
                      state |-> IF i = 1 THEN "created" ELSE "transit",
                      info |-> NoInfo,
                      created |-> 0,
                      payment |-> i]]
    /\ cache = EmptyCache
    /\ now = 0
    /\ queue = EmptyBag
    /\ nextRef = 1
    /\ tproc = NoProcs(PendingProvider({1}), NoLimit, 1)
    /\ last = Idle

\* a status GET that was answered
PollSucceeds == PollStatus /\ last'.get.ok

NextLive ==
    \/ register_periodic_task
    \/ SweepStep
    \/ check_payment
    \/ TokenStep
    \/ ReconcileStep
    \/ ProviderResolves
    \/ Tick

SpecLive ==
    /\ InitLive
    /\ [][NextLive]_vars
    /\ WF_vars(register_periodic_task)
    /\ WF_vars(SweepStep)
    /\ WF_vars(check_payment)
    /\ WF_vars(TokenStep)
    /\ WF_vars(ReconcileStep)
    /\ SF_vars(PollSucceeds)

----------------------------------------------------------------------------
(* Data-retention erasure: the host shreds payment 1 at some time, on the  *)
(* object it has loaded, and the webhook goes on reconciling it.  Payment 1 starts as checkout,    *)
(* the initiator and the reconciler leave it: created without info, or     *)
(* pending or confirmed with the reference and the provider's fields.      *)

\* the marker put in place of the payer, {"_shredded": True}
Shredded == "_shredded"

\* MTNMoMo.shred_payment_info(obj), the info it leaves
ShredInfo(info) ==
    IF DOMAIN info = {}
    THEN info
    ELSE [k \in (DOMAIN info) \cup {"payer", "_shredded"} |->
            IF k = "payer" THEN Shredded
            ELSE IF k = "_shredded" THEN TRUE
            ELSE info[k]]

\* MTNMoMo.shred_payment_info(obj) is called with a payment of this provider
\* the host has loaded
shred_payment_info == \E i \in OwnPayments :
    LET row == payments[i]
        th == [NoThread EXCEPT !.h = "shred_payment_info", !.kind = "payment", !.id = i,
                               !.copy = Pre(row), !.pre = Pre(row)]
    IN /\ Free
       /\ Step(NoThread, "load", th, After(row, th.copy, "shred", NoRaise))
       /\ UNCHANGED <<cache, now, queue, nextRef>>

\* MTNMoMo.shred_payment_info(obj), as far as it acts: nothing for an object
\* without info, else the info of the object shredded and saved
ShredSaved == \E th \in Running :
    LET row == Row(th.kind, th.id)
        copy == [th.copy EXCEPT !.info = ShredInfo(@)]
    IN /\ th.pc = "shred"
       /\ IF DOMAIN th.copy.info = {}
          THEN Step(th, "shred", th, After(row, th.copy, "end", NoRaise))
          ELSE Step(th, "shred", th, After(SaveInfo(row, copy), copy, "end", NoRaise))
       /\ UNCHANGED <<cache, now, queue, nextRef>>

\* the payments the host may shred: as created, submitted, polled, or paid
ShredRows ==
    {[state |-> "created", info |-> NoInfo],
     [state |-> "pending", info |-> [reference |-> 1]],
     [state |-> "pending",
      info |-> [reference |-> 1, status |-> "PENDING", payer |-> "msisdn"]],
     [state |-> "confirmed", info |-> PaidInfo]}

InitShred ==
    /\ \E p \in ShredRows :
          payments = [i \in PaymentIds |->
                        [provider |-> IF i = 1 THEN identifier ELSE "other",
                         state |-> IF i = 1 THEN p.state ELSE "pending",
                         info |-> IF i = 1 THEN p.info ELSE NoInfo,
                         created |-> 0]]
    /\ refunds = [i \in RefundIds |->
                     [provider |-> IF i = 1 THEN identifier ELSE "other",
                      state |-> IF i = 1 THEN "created" ELSE "transit",
                      info |-> NoInfo,
                      created |-> 0,
                      payment |-> i]]
    /\ cache = EmptyCache
    /\ now = 0
    /\ queue = EmptyBag
    /\ nextRef = 1
    /\ tproc = NoProcs(AnyProvider, MaxCalls, MaxThreads)
    /\ last = Idle

NextShred ==
    \/ shred_payment_info
    \/ ShredSaved
    \/ webhook
    \/ TokenStep
    \/ ReconcileStep

SpecShred == InitShred /\ [][NextShred]_vars

----------------------------------------------------------------------------
(* Properties.  Each speaks of the step taken last: what it did is in      *)
(* last, the row it left is in payments or refunds.  A property of a whole *)
(* call speaks of the step that ended it, and, where it tells what the     *)
(* call made of the row, of a call during which no other handler wrote the *)
(* row (last.alone); the interleavings are the matter of C12, C13 and C18. *)

\* a webhook call or a check_payment task that called _update_payment has
\* just ended
PaymentReconciled ==
    /\ last.reconciled
    /\ \/ last.op = "check_payment"
       \/ last.op = "webhook" /\ last.param = "payment"

\* a webhook call or a check_refund task that called _update_refund has just
\* ended
RefundReconciled ==
    /\ last.reconciled
    /\ \/ last.op = "check_refund"
       \/ last.op = "webhook" /\ last.param = "refund"

\* the step taken last was a statement of an _update_payment call
PaymentUpdateStep ==
    /\ last.kind = "payment"
    /\ last.reconciled
    /\ last.step \in {"load", "token", "fetch", "set", "poll", "confirm", "store"}

\* the reconciler's status GET answered with a status
Answered == last.polled /\ last.get.ok /\ "status" \in DOMAIN last.get.body

GotStatus(st) == Answered /\ last.get.body.status = st

Terminal == {"confirmed", "failed"}

\* m has every key of a and of d, with d's value where d has the key and a's
\* value elsewhere
IsMerged(m, a, d) ==
    /\ DOMAIN m = (DOMAIN a) \cup (DOMAIN d)
    /\ \A k \in DOMAIN d : m[k] = d[k]
    /\ \A k \in (DOMAIN a) \ (DOMAIN d) : m[k] = a[k]

\* C1: a statement of _update_payment (called from the webhook, the
\* check_payment task or execute_payment, under any interleaving) that finds
\* the payment's row confirmed or failed leaves the state as it was, whatever
\* the provider answers: the payment neither returns to created or pending
\* nor moves from one terminal state to the other.
C1_TerminalKept ==
    (PaymentUpdateStep /\ last.row.state \in Terminal)
        => payments[last.id].state = last.row.state

\* a call found the payment failed, was answered SUCCESSFUL and has called
\* payment.confirm(): the payment is failed as before
C1_Witness ==
    /\ PaymentUpdateStep
    /\ last.step = "confirm"
    /\ last.row.state = "failed"
    /\ GotStatus("SUCCESSFUL")
    /\ payments[last.id].state = "failed"

\* a call that loaded the payment confirmed was answered FAILED
C1_WitnessConfirmed ==
    /\ PaymentReconciled
    /\ last.pre.state = "confirmed"
    /\ GotStatus("FAILED")
    /\ payments[last.id].state = "confirmed"

\* a call that loaded the payment pending was answered FAILED after another
\* call had confirmed it: fail() found the row confirmed
C1_WitnessStale ==
    /\ PaymentUpdateStep
    /\ last.pre.state = "pending"
    /\ last.row.state = "confirmed"
    /\ GotStatus("FAILED")
    /\ payments[last.id].state = "confirmed"

\* C3: a FAILED answer with reason X moves a pending or created payment to
\* failed, its info the stored info merged with the answer (reason X in it);
\* the same answer leaves a confirmed payment confirmed.
C3_FailedAnswer ==
    (PaymentReconciled /\ GotStatus("FAILED") /\ last.alone)
        => /\ last.pre.state \in {"created", "pending"}
                => /\ payments[last.id].state = "failed"
                   /\ IsMerged(payments[last.id].info, last.pre.info, last.get.body)
                   /\ payments[last.id].info.reason = last.get.body.reason
           /\ last.pre.state = "confirmed"
                => payments[last.id].state = "confirmed"

C3_Witness ==
    /\ PaymentReconciled
    /\ last.alone
    /\ GotStatus("FAILED")
    /\ last.pre.state = "pending"
    /\ payments[last.id].state = "failed"
    /\ payments[last.id].info.reason \in Reasons
    /\ payments[last.id].info.reference = last.pre.info.reference

\* C4: a SUCCESSFUL answer leaves a pending payment confirmed, its info the
\* previous info merged with every field of the answer, the answer's fields
\* winning where both have the key.
C4_SuccessfulAnswer ==
    (PaymentReconciled /\ GotStatus("SUCCESSFUL") /\ last.pre.state = "pending"
        /\ last.alone)
        => /\ payments[last.id].state = "confirmed"
           /\ IsMerged(payments[last.id].info, last.pre.info, last.get.body)

\* a pending payment whose stored status was PENDING is confirmed
C4_Witness ==
    /\ PaymentReconciled
    /\ last.alone
    /\ GotStatus("SUCCESSFUL")
    /\ last.pre.state = "pending"
    /\ "status" \in DOMAIN last.pre.info
    /\ last.pre.info.status = "PENDING"
    /\ payments[last.id].state = "confirmed"
    /\ payments[last.id].info.status = "SUCCESSFUL"

\* an _update_payment call was made on a payment with a stored reference:
\* from the webhook or the task, or at the end of execute_payment
ReferenceBefore ==
    IF PaymentReconciled /\ last.alone /\ "reference" \in DOMAIN last.pre.info
    THEN {last.pre.info.reference}
    ELSE IF last.op = "execute_payment" /\ last.alone /\ last.reconciled
    THEN {last.refid}
    ELSE {}

ReferenceKept ==
    \A ref \in ReferenceBefore :
        /\ "reference" \in DOMAIN payments[last.id].info
        /\ payments[last.id].info.reference = ref

\* C6 as stated: after an _update_payment call, whatever the transport
\* outcome and the provider's answer, the stored reference is the one
\* execute_payment stored.
C6_Original == ReferenceKept

\* the answer itself has a field named reference
AnswerNamesReference ==
    last.polled /\ last.get.ok /\ "reference" \in DOMAIN last.get.body

\* C6, amended: after an _update_payment call, whatever the transport
\* outcome, the stored reference is the one execute_payment stored, provided
\* the provider's answer has no field named reference (such a field wins the
\* merge and replaces the stored reference).
C6_Amended ==
    /\ ~AnswerNamesReference => ReferenceKept
    /\ (AnswerNamesReference /\ ReferenceBefore # {})
          => payments[last.id].info.reference = last.get.body.reference

\* the call that confirms the payment keeps the reference
C6_Witness ==
    /\ PaymentReconciled
    /\ GotStatus("SUCCESSFUL")
    /\ last.pre.state = "pending"
    /\ payments[last.id].state = "confirmed"
    /\ payments[last.id].info.reference = last.pre.info.reference

\* C7 as stated: every invocation of execute_payment on a payment uses the
\* same reference: an invocation on a payment that already has a stored
\* reference stores and sends that reference, not a new one.
C7_OneReference ==
    (last.op = "execute_payment" /\ last.alone /\ "reference" \in DOMAIN last.pre.info)
        => /\ payments[last.id].info.reference = last.pre.info.reference
           /\ last.sent \subseteq {last.pre.info.reference}

\* the webhook call recorded in l named no row of this provider: its payment
\* parameter (or, without one, its refund parameter) is absent or is the
\* primary key of no row with provider mtn_momo
SelectedNoRow(l) ==
    /\ l.op = "webhook"
    /\ \/ l.param = "none"
       \/ /\ l.param = "payment"
          /\ l.id \in PaymentIds => payments[l.id].provider # "mtn_momo"
       \/ /\ l.param = "refund"
          /\ l.id \in RefundIds => refunds[l.id].provider # "mtn_momo"

\* C9 as stated: a webhook call that names no row of this provider (its
\* parameter absent, or naming no record with provider mtn_momo) calls no
\* reconciler, changes no payment and no refund, and answers 200 OK.
C9_NoRowNoChange ==
    [][SelectedNoRow(last')
          => /\ payments' = payments
             /\ refunds' = refunds
             /\ ~last'.reconciled
             /\ ~last'.polled
             /\ last'.raised = "none"
             /\ last'.http = "200 OK"]_vars

\* C9, for parameters that are numerals: a webhook call whose parameter is
\* absent or is the primary key of no row with provider mtn_momo calls no
\* reconciler, changes no payment and no refund, and answers 200 OK; a call
\* whose parameter is no numeral changes nothing either.
C9_NumeralNoChange ==
    [][SelectedNoRow(last')
          => /\ payments' = payments
             /\ refunds' = refunds
             /\ ~last'.reconciled
             /\ ~last'.polled
             /\ last'.raised \in {"none", "ValueError"}
             /\ last'.raised = "none" => last'.http = "200 OK"]_vars

\* a webhook call naming a payment of another provider has answered
C9_Witness ==
    /\ SelectedNoRow(last)
    /\ last.param = "payment"
    /\ last.id \in PaymentIds
    /\ last.http = "200 OK"

\* a webhook call whose payment parameter is no numeral has ended with
\* ValueError
C9_WitnessValueError ==
    /\ SelectedNoRow(last)
    /\ last.param = "payment"
    /\ last.raised = "ValueError"
    /\ last.http = "500"

\* C2 as stated: the webhook answers 200 OK and lets no error out, whichever
\* row it selected and whether the reconciliation met a transport failure or
\* an answer with status SUCCESSFUL, FAILED or another.
C2_AlwaysOk ==
    (/\ last.op = "webhook"
     /\ \/ ~last.reconciled
        \/ last.tok = "transport"
        \/ last.polled /\ ~last.get.ok
        \/ Answered)
        => last.http = "200 OK" /\ last.raised = "none"

\* C5: a FAILED answer with reason X for a refund in state in-transit or
\* created makes _update_refund raise a PaymentException carrying X; the
\* refund is not marked done (its state and info stay as they were).
C5_RefundFailedRaises ==
    /\ (RefundReconciled /\ GotStatus("FAILED") /\ last.alone
            /\ last.pre.state \in {"created", "transit"})
          => /\ last.raised = "PaymentException"
             /\ last.msg = last.get.body.reason
             /\ refunds[last.id].state = last.pre.state
             /\ refunds[last.id].info = last.pre.info
    /\ (last.op = "execute_refund" /\ last.reconciled /\ GotStatus("FAILED")
            /\ last.alone)
          => /\ last.raised = "PaymentException"
             /\ last.msg = last.get.body.reason
             /\ refunds[last.id].state = "transit"

C5_Witness ==
    /\ RefundReconciled
    /\ last.alone
    /\ GotStatus("FAILED")
    /\ last.pre.state = "transit"
    /\ last.raised = "PaymentException"
    /\ last.msg \in Reasons
    /\ refunds[last.id].state = "transit"

\* the rows for which the last handler enqueued the task named
Enqueued(task) == {t[2] : t \in {u \in last.enq : u[1] = task}}

\* the age of a row at time t
Age(row, t) == t - row.created

\* C8 as stated: a run of the periodic sweep enqueues check_payment for
\* exactly the payments of provider mtn_momo in state pending created within
\* the 24 hours before the run, check_refund for exactly the refunds of
\* provider mtn_momo in state in-transit created within the 24 hours before
\* the run (the same 24 hours for both), and nothing else; no task is
\* enqueued for a pending payment that is older than 24 hours.
C8_Original ==
    /\ last.op = "sweep"
          => \E t \in {last.times[k] : k \in DOMAIN last.times} :
                /\ Enqueued("check_payment")
                     = {i \in PaymentIds : /\ payments[i].provider = "mtn_momo"
                                           /\ payments[i].state = "pending"
                                           /\ Age(payments[i], t) < Day}
                /\ Enqueued("check_refund")
                     = {i \in RefundIds : /\ refunds[i].provider = "mtn_momo"
                                          /\ refunds[i].state = "transit"
                                          /\ Age(refunds[i], t) < Day}
    /\ \A i \in PaymentIds :
          (last.h = "sweep" /\ last.step = "apply_async" /\ last.enq = {<<"check_payment", i>>})
             => Age(payments[i], now) <= Day

\* C8, amended: a run of the periodic sweep enqueues check_payment for
\* exactly the payments of provider mtn_momo in state pending created less
\* than 24 hours before its first query, check_refund for exactly the refunds
\* of provider mtn_momo in state in-transit created less than 24 hours before
\* its second query (made after the payments' tasks are enqueued), and
\* nothing else; no payment that was 24 hours old or older at the first query
\* gets a task.
C8_SweepSelects ==
    last.op = "sweep"
        => /\ Len(last.times) = 2
           /\ last.times[1] <= last.times[2]
           /\ Enqueued("check_payment")
                = {i \in PaymentIds : /\ payments[i].provider = "mtn_momo"
                                      /\ payments[i].state = "pending"
                                      /\ Age(payments[i], last.times[1]) < Day}
           /\ Enqueued("check_refund")
                = {i \in RefundIds : /\ refunds[i].provider = "mtn_momo"
                                     /\ refunds[i].state = "transit"
                                     /\ Age(refunds[i], last.times[2]) < Day}
           /\ \A t \in last.enq : t[1] \in {"check_payment", "check_refund"}
           /\ \A i \in PaymentIds :
                 (payments[i].state = "pending"
                     /\ Age(payments[i], last.times[1]) >= Day)
                    => <<"check_payment", i>> \notin last.enq

\* a sweep that took a recent pending payment and a recent in-transit refund
\* and left out an in-transit refund of another provider
C8_Witness ==
    /\ last.op = "sweep"
    /\ last.enq = {<<"check_payment", 1>>, <<"check_refund", 1>>}
    /\ refunds[2].state = "transit"
    /\ now - refunds[2].created < Day

\* a sweep that left out a pending payment of this provider created 24 hours
\* before or earlier
C8_WitnessOld ==
    /\ last.op = "sweep"
    /\ payments[1].state = "pending"
    /\ Age(payments[1], last.times[1]) >= Day
    /\ last.enq = {}

\* a sweep during which the clock advanced: the payment was less than 24
\* hours old at the first query and got its task, the refund created at the
\* same time was 24 hours old at the second query and got none
C8_WitnessClock ==
    /\ last.op = "sweep"
    /\ last.times[1] < last.times[2]
    /\ payments[1].state = "pending"
    /\ refunds[1].state = "transit"
    /\ payments[1].created = refunds[1].created
    /\ last.enq = {<<"check_payment", 1>>}

\* get_token has just returned a token
TokenReturned == last.op = "get_token" /\ last.tok \in {"hit", "fetched"}

\* when the provider issued the token, and the life it declared for it
IssuedAt(token) == token[1]

DeclaredLife(token) == token[2]

\* C10 as stated, for tokens whose declared life exceeds the margin: a token
\* that get_token returns, from the cache or freshly fetched, is returned no
\* later than expires_in - 120 seconds after the provider issued it.
C10_WithinMargin ==
    (TokenReturned /\ DeclaredLife(last.token) > Margin)
        => last.at <= IssuedAt(last.token) + DeclaredLife(last.token) - Margin

\* C10 as stated, for tokens whose declared life is 120 seconds or less
C10_ShortLived ==
    (TokenReturned /\ DeclaredLife(last.token) <= Margin)
        => last.at <= IssuedAt(last.token) + DeclaredLife(last.token) - Margin

\* the latest fetch for the key wrote the cache at or before time t, and the
\* entry, written for expires_in - 120 seconds, has not lapsed at t
FetchLive(api, t) ==
    /\ tproc.fetched[api].at <= t
    /\ t < tproc.fetched[api].at + tproc.fetched[api].token_hash.expires_in - Margin

\* the get_token call recorded in l made no token POST
NoPost(l) == l.tok \in {"hit", "hit_notoken"}

\* the step taken last was the cache read of a get_token call
TokenRead(l) == l.h = "get_token" /\ l.step = "token"

\* C11 as stated: with sequential callers, a get_token call makes the token
\* POST exactly when the cache holds no live entry for its key, and a call
\* made between a fetch and the lapse of its cache entry (expires_in - 120
\* seconds after the write) returns the fetched token without a POST.
C11_Original ==
    [][TokenRead(last')
          => /\ NoPost(last') <=> (/\ last'.api \in DOMAIN cache
                                   /\ cache[last'.api].expires > now)
             /\ FetchLive(last'.api, now)
                   => /\ last'.tok = "hit"
                      /\ last'.raised = "none"]_vars

\* C11, what get_token does: with sequential callers, a call makes the token
\* POST exactly when the cache holds no live entry for its key; a call made
\* between a fetch and the lapse of its cache entry returns the fetched token
\* without a POST when the fetched body had an access_token, and raises
\* KeyError without a POST when it had none (the body is cached all the same).
C11_OnePostPerMiss ==
    [][TokenRead(last')
          => /\ NoPost(last') <=> (/\ last'.api \in DOMAIN cache
                                   /\ cache[last'.api].expires > now)
             /\ last'.tok \in {"hit", "hit_notoken", "miss"}
             /\ (FetchLive(last'.api, now) /\ HasToken(tproc.fetched[last'.api].token_hash))
                   => /\ last'.tok = "hit"
                      /\ last'.token = tproc.fetched[last'.api].token_hash.access_token
             /\ (FetchLive(last'.api, now) /\ ~HasToken(tproc.fetched[last'.api].token_hash))
                   => /\ last'.tok = "hit_notoken"
                      /\ last'.raised = "KeyError"]_vars

\* a call some time after the fetch, before the lapse, got the fetched token
C11_Witness ==
    /\ last.op = "get_token"
    /\ last.tok = "hit"
    /\ last.at > IssuedAt(last.token)
    /\ last.token = tproc.fetched[last.api].token_hash.access_token

\* a call some time after a fetch whose body had no access_token, before the
\* lapse, hit the cached body and raised KeyError
C11_WitnessNoToken ==
    /\ last.op = "get_token"
    /\ last.tok = "hit_notoken"
    /\ last.at > tproc.fetched[last.api].at
    /\ ~HasToken(tproc.fetched[last.api].token_hash)

\* a call after the lapse has fetched again
C11_WitnessLapsed ==
    /\ last.op = "get_token"
    /\ last.tok = "fetched"
    /\ IssuedAt(last.token) > 0
    /\ DeclaredLife(last.token) > Margin

\* C14 as stated, for the webhook and the check_refund task: a FAILED answer
\* for a refund in state created or in-transit ends with the refund in state
\* failed, the provider's reason kept in its info, so that no later sweep
\* selects it.
C14_FailedRefundFails ==
    (RefundReconciled /\ GotStatus("FAILED") /\ last.alone
        /\ last.pre.state \in {"created", "transit"})
        => /\ refunds[last.id].state = "failed"
           /\ "reason" \in DOMAIN refunds[last.id].info
           /\ refunds[last.id].info.reason = last.get.body.reason
           /\ last.id \notin SweepRefunds(now)

\* the initiator's own get_token call or its POST met a transport error
SubmissionFailed ==
    \/ last.first = "transport"
    \/ /\ last.first \in {"hit", "fetched"}
       /\ ~last.reconciled
       /\ last.raised = "PaymentException"

\* C15 as stated: a transport error of the token acquisition or of the refund
\* POST in execute_refund leaves the refund in state failed, not created, and
\* raises the PaymentException with the generic message.
C15_RefundSubmissionFails ==
    (last.op = "execute_refund" /\ SubmissionFailed /\ last.alone)
        => /\ refunds[last.id].state = "failed"
           /\ last.raised = "PaymentException"
           /\ last.msg = Trouble

\* C16: a transport error of the token acquisition or of the charge POST in
\* execute_payment leaves the payment in state failed, its info holding the
\* reference drawn by this call and the error string and nothing else, and
\* raises the PaymentException with the generic message.
C16_PaymentSubmissionFails ==
    (last.op = "execute_payment" /\ SubmissionFailed /\ last.alone)
        => /\ payments[last.id].state = "failed"
           /\ payments[last.id].info = [reference |-> last.refid, error |-> ErrorText]
           /\ last.refid > 0
           /\ last.sent \subseteq {last.refid}
           /\ last.raised = "PaymentException"
           /\ last.msg = Trouble
           /\ ~last.polled

\* the charge POST failed after a token was obtained
C16_Witness ==
    /\ last.op = "execute_payment"
    /\ last.alone
    /\ last.first = "fetched"
    /\ last.sent = {last.refid}
    /\ last.raised = "PaymentException"
    /\ payments[last.id].state = "failed"
    /\ payments[last.id].info.error = ErrorText

\* the token POST failed
C16_WitnessToken ==
    /\ last.op = "execute_payment"
    /\ last.alone
    /\ last.first = "transport"
    /\ last.sent = {}
    /\ payments[last.id].state = "failed"
    /\ payments[last.id].info.reference = last.refid

\* C17 as stated: every invocation of execute_payment calls _update_payment
\* before it finishes, whatever the outcome of the submission.
C17_Original == last.op = "execute_payment" => last.reconciled

\* C17, amended: an invocation of execute_payment calls _update_payment, on
\* the payment it has just made pending, exactly when its token acquisition
\* and its charge POST both succeeded; after a transport error of either it
\* raises PaymentException without a reconciliation, and an uncaught error of
\* the token acquisition ends it the same way.
C17_Amended ==
    last.op = "execute_payment"
        => /\ last.reconciled
                <=> (last.first \in {"hit", "fetched"}
                        /\ ~(last.raised = "PaymentException"))
           /\ last.reconciled
                => /\ last.sent = {last.refid}
                   /\ last.alone
                        => payments[last.id].state \in {"pending", "confirmed", "failed"}
           /\ ~last.reconciled
                => /\ ~last.polled
                   /\ last.raised \in {"PaymentException", "KeyError"}
                   /\ last.alone => payments[last.id].state \in {"created", "failed"}

\* the reconciler ran at the end of execute_payment and confirmed the payment
C17_Witness ==
    /\ last.op = "execute_payment"
    /\ last.reconciled
    /\ GotStatus("SUCCESSFUL")
    /\ payments[last.id].state = "confirmed"

\* the reconciler's own get_token call or its status GET met a transport
\* error (a non-2xx answer included)
ReconcilerTransportError ==
    /\ last.reconciled
    /\ \/ last.tok = "transport"
       \/ last.polled /\ ~last.get.ok

\* C19: a transport error of the token acquisition or of the status GET in
\* _update_payment makes the call return without raising, the payment's state
\* and info as they were when it was called.
C19_TransportErrorSilent ==
    /\ (PaymentReconciled /\ ReconcilerTransportError)
          => /\ last.raised = "none"
             /\ last.alone
                  => /\ payments[last.id].state = last.pre.state
                     /\ payments[last.id].info = last.pre.info
    /\ (last.op = "execute_payment" /\ ReconcilerTransportError)
          => /\ last.raised = "none"
             /\ last.alone
                  => /\ payments[last.id].state = "pending"
                     /\ payments[last.id].info = [reference |-> last.refid]
    /\ (PaymentUpdateStep /\ ReconcilerTransportError)
          => /\ payments[last.id].state = last.row.state
             /\ payments[last.id].info = last.row.info

\* the status GET of a webhook call failed and the pending payment is as before
C19_Witness ==
    /\ PaymentReconciled
    /\ last.alone
    /\ last.op = "webhook"
    /\ last.polled
    /\ ~last.get.ok
    /\ last.pre.state = "pending"
    /\ payments[last.id].state = "pending"
    /\ last.http = "200 OK"

\* the token POST of a reconciliation failed
C19_WitnessToken ==
    /\ PaymentReconciled
    /\ last.tok = "transport"
    /\ ~last.polled
    /\ payments[last.id].state = last.pre.state

\* the status GET answered with a status that is neither SUCCESSFUL nor FAILED
OtherStatus ==
    Answered /\ last.get.body.status \notin {"SUCCESSFUL", "FAILED"}

\* C20: an answer whose status is neither SUCCESSFUL nor FAILED makes
\* _update_payment store the info merged with the answer and leave the state
\* as it was: a pending payment stays pending.
C20_OtherStatusMerged ==
    /\ (PaymentReconciled /\ OtherStatus)
          => /\ last.raised = "none"
             /\ payments[last.id].state = last.row.state
             /\ IsMerged(payments[last.id].info, last.pre.info, last.get.body)
             /\ last.alone => payments[last.id].state = last.pre.state
    /\ (last.op = "execute_payment" /\ last.reconciled /\ OtherStatus)
          => /\ payments[last.id].state = last.row.state
             /\ IsMerged(payments[last.id].info, [reference |-> last.refid],
                         last.get.body)
             /\ last.alone => payments[last.id].state = "pending"

\* a pending payment got the answer PENDING and stays pending, the answer's
\* fields in its info
C20_Witness ==
    /\ PaymentReconciled
    /\ last.alone
    /\ OtherStatus
    /\ last.pre.state = "pending"
    /\ payments[last.id].state = "pending"
    /\ "status" \notin DOMAIN last.pre.info
    /\ payments[last.id].info.status = "PENDING"
    /\ payments[last.id].info.payer = "msisdn"

\* the step taken last was the state write of an initiator, after its POST
InitiatorStateWrite ==
    /\ last.h \in {"execute_payment", "execute_refund"}
    /\ last.step = "state"

\* C12 as stated: once the row of a payment is confirmed (of a refund, done),
\* the state write of the initiator that follows its charge or refund POST
\* does not set it to pending (in-transit).
C12_TerminalKept ==
    (InitiatorStateWrite /\ last.row.state \in {"confirmed", "done"})
        => Row(last.kind, last.id).state = last.row.state

\* the references stored in the rows of this provider
StoredReferences ==
    {payments[i].info.reference :
        i \in {j \in OwnPayments : "reference" \in DOMAIN payments[j].info}}
    \cup {refunds[i].info.reference :
        i \in {j \in OwnRefunds : "reference" \in DOMAIN refunds[j].info}}

\* the threads that run an initiator
Initiators ==
    {th \in Running : th.h \in {"execute_payment", "execute_refund"}}

\* C18: when execute_payment or execute_refund makes its first outbound
\* request (the token fetch, or with a cached token the charge or refund
\* POST), and in every state after it, the row stores the reference this
\* execution drew: a reference the provider has received for the record is
\* a stored one.
C18_ReferenceStoredFirst ==
    /\ \A th \in Initiators :
          LET row == Row(th.kind, th.id) IN
          /\ "reference" \in DOMAIN row.info
          /\ row.info.reference = th.refid
          /\ th.sent \subseteq {row.info.reference}
    /\ tproc.provider.known \subseteq StoredReferences

\* the charge POST has reached the provider, the payment not yet set pending
C18_Witness ==
    \E th \in Initiators :
        /\ th.kind = "payment"
        /\ th.pc = "state"
        /\ tproc.provider.known = {th.refid}
        /\ payments[1].state = "created"
        /\ payments[1].info.reference = th.refid

\* the same for a refund
C18_WitnessRefund ==
    \E th \in Initiators :
        /\ th.kind = "refund"
        /\ th.pc = "state"
        /\ tproc.provider.known = {th.refid}
        /\ refunds[1].state = "created"
        /\ refunds[1].info.reference = th.refid

\* the row one _update_payment call leaves, run from statement pc to its end
\* with no other handler at work
RECURSIVE RunUpdatePayment(_, _, _, _)
RunUpdatePayment(pc, row, copy, d) ==
    LET a == UpdatePayment(pc, row, copy, d)
    IN IF a.pc = "end" THEN a.row ELSE RunUpdatePayment(a.pc, a.row, a.copy, d)

\* the state one _update_payment call leaves a pending payment in when the
\* provider's status is st
Single(st) ==
    LET p == [state |-> "pending", info |-> [reference |-> 1]]
    IN RunUpdatePayment("apply", p, p, ProviderBody(st)).state

ProviderTerminal == tproc.provider.status \in {"SUCCESSFUL", "FAILED"}

\* C13: webhook calls and check_payment tasks for the same pending payment,
\* interleaved in any order, each on the object it loaded: the payment leaves
\* pending at most once (a state other than pending is never changed), and
\* the state is, at any time, pending or the one a single reconciliation
\* with the provider's status leaves (confirmed for SUCCESSFUL, failed for
\* FAILED), the latter at the end of every call that was answered that
\* status.
C13_OneTransition ==
    /\ [](payments[1].state # "pending"
             => /\ ProviderTerminal
                /\ payments[1].state = Single(tproc.provider.status))
    /\ []((PaymentReconciled /\ Answered /\ last.get.body.status # "PENDING")
             => payments[1].state = Single(last.get.body.status))
    /\ [][payments[1].state # "pending"
             => payments'[1].state = payments[1].state]_vars

\* two calls loaded the payment pending and were answered SUCCESSFUL; one
\* confirmed it, the other's confirm() found it confirmed
C13_Witness ==
    /\ PaymentUpdateStep
    /\ last.step = "confirm"
    /\ last.pre.state = "pending"
    /\ last.row.state = "confirmed"
    /\ ~last.alone
    /\ payments[1].state = "confirmed"

\* both were answered FAILED; the second fail() found the payment failed
C13_WitnessFailed ==
    /\ PaymentUpdateStep
    /\ GotStatus("FAILED")
    /\ last.step = "poll"
    /\ last.pre.state = "pending"
    /\ last.row.state = "failed"
    /\ payments[1].state = "failed"

\* a call that loaded the payment pending saves its answer PENDING after
\* another call has confirmed the payment: the state stays confirmed
C13_WitnessStale ==
    /\ PaymentReconciled
    /\ GotStatus("PENDING")
    /\ last.pre.state = "pending"
    /\ last.row.state = "confirmed"
    /\ payments[1].state = "confirmed"
    /\ payments[1].info.status = "PENDING"

\* the state _update_payment gives a pending payment for a terminal status
Matching(st) == IF st = "SUCCESSFUL" THEN "confirmed" ELSE "failed"

\* C21 as stated: with the sweep kept running, enqueued tasks run in the end
\* and status GETs succeeding in the end, a pending payment whose charge the
\* provider has settled while the payment is less than 24 hours old reaches
\* the matching state, confirmed or failed, without any webhook call.
C21_Original ==
    (/\ payments[1].state = "pending"
     /\ ProviderTerminal
     /\ now - payments[1].created < Day)
        ~> (/\ ProviderTerminal
            /\ payments[1].state = Matching(tproc.provider.status))

\* the last handler was a check_payment run for payment 1 whose token
\* acquisition or status GET failed
CheckFailed ==
    /\ last.op = "check_payment"
    /\ last.id = 1
    /\ ~(last.polled /\ last.get.ok)

\* C21, amended: a pending payment with a check_payment task enqueued (by a
\* sweep run while it was less than 24 hours old) and the charge settled
\* reaches the matching state, confirmed or failed, unless the task's token
\* acquisition or status GET fails; and a pending payment 24 hours old or
\* older with no task enqueued gets no task from any later sweep and stays
\* pending.
C21_Amended ==
    /\ (/\ payments[1].state = "pending"
        /\ ProviderTerminal
        /\ BagIn(<<"check_payment", 1>>, queue))
          ~> \/ /\ ProviderTerminal
                /\ payments[1].state = Matching(tproc.provider.status)
             \/ CheckFailed
    /\ [][(/\ payments[1].state = "pending"
           /\ now - payments[1].created >= Day
           /\ queue = EmptyBag
           /\ tproc.threads = EmptyBag
           /\ tproc.sweep.rows = {})
             => /\ payments'[1].state = "pending"
                /\ queue' = EmptyBag
                /\ tproc'.sweep.rows = {}]_vars

\* the task of a sweep has confirmed the payment the provider settled
C21_Witness ==
    /\ last.op = "check_payment"
    /\ last.id = 1
    /\ last.pre.state = "pending"
    /\ tproc.provider.status = "SUCCESSFUL"
    /\ payments[1].state = "confirmed"

\* a sweep has passed over the settled payment, pending and a day old
C21_WitnessStuck ==
    /\ last.op = "sweep"
    /\ last.enq = {}
    /\ last.times[1] - payments[1].created >= Day
    /\ ProviderTerminal
    /\ payments[1].state = "pending"
    /\ now - payments[1].created >= Day
    /\ queue = EmptyBag
    /\ tproc.threads = EmptyBag
    /\ tproc.sweep = NoSweep

\* shred_payment_info has been applied to the payment's stored info
WasShredded(i) == "_shredded" \in DOMAIN payments[i].info

\* C22 as stated: once shred_payment_info has been applied to a payment with
\* stored info, the info holds the shredded marker as its payer entry in
\* every later state, whatever _update_payment merges into it.
C22_PayerStaysShredded ==
    \A i \in OwnPayments :
        WasShredded(i) => payments[i].info.payer = Shredded

\* C22 as stated, the reference: once shred_payment_info has been applied,
\* the info holds the reference it held then in every later state.
C22_ReferenceStays ==
    \A i \in OwnPayments :
        WasShredded(i) => payments[i].info.reference = 1

\* shred_payment_info itself, no other handler writing the row meanwhile,
\* leaves the marker and the reference
C22_ShredLeavesMarker ==
    (last.op = "shred_payment_info" /\ last.alone /\ DOMAIN last.pre.info # {})
        => /\ payments[last.id].info.payer = Shredded
           /\ payments[last.id].info.reference = last.pre.info.reference
           /\ payments[last.id].state = last.pre.state

====
